---- MODULE Spec2Model ----
(***************************************************************************)
(* Bridge page (Bridge component) and ledger gateway (useBridgeContract)   *)
(* of newdex1, as a state machine.                                         *)
(*                                                                         *)
(* React semantics used throughout: a handler or effect runs with the      *)
(* state of the render it was created in; an async function runs           *)
(* synchronously up to its first await, and every later await is a point   *)
(* where other events may be served.  A promise that is rejected without   *)
(* any pending I/O is handled in the same task, so such a rejection is     *)
(* folded into the step that caused it.                                    *)
(***************************************************************************)
EXTENDS Integers, Sequences, FiniteSets, TLC

\* ------------------------------------------------------------------ bounds
MaxWei == 2
MaxCalls == 2
MaxSubmits == 1
MaxHandles == 2
MaxFeeWei == 41
MaxEstimates == 2
MaxSwitches == 2

\* --------------------------------------------------------------- constants
EtherDecimals == 18

\* BigInt(tokenInfo.fee || 250) / BigInt(10000)
DefaultFeeBps == 250
FeeDenominator == 10000

\* BridgeStatus
Pending == 0
Locked == 1
Released == 2
Completed == 3
Failed == 4

NoAccount == ""
NoChain == 0
NullContract == 0
NoToken == ""

Accounts ==
    {"0xA"}

\* chains of CHAIN_CONFIG with isTestnet = false (testnetMode = false)
AvailableChains ==
    {1, 56}

\* chain ids the wallet reports; 137 has no contract addresses
\* ids of the chains configured as testnets
TestnetChains ==
    {5, 97}

isTestnetChain(c) ==
    c \in TestnetChains

WalletChains ==
    {1, 137}

getContractAddresses(c) ==
    IF c = 1 THEN c ELSE NullContract

\* token list per chain: address and home chain (token.chainId)
getTokensByChain(c) ==
    IF c = 1
    THEN {[address |-> "0xT1", chainId |-> 1], [address |-> "0xT2", chainId |-> 56]}
    ELSE {}

TokenAddresses ==
    {"0xT1", "0xT2"}

\* decimals of each token: 18, and 6 for the stablecoin
TokenDecimals(t) ==
    IF t = "0xT2" THEN 6 ELSE EtherDecimals

availableTokens(c) ==
    IF c # NoChain THEN getTokensByChain(c) ELSE {}

\* ------------------------------------------------------- amount text input
\* The text of the amount field: empty, or "(-)0.<frac>" ("0" when frac is
\* empty).  Every non-empty text used here has integer part 0.
Zeros(n) ==
    [i \in 1..n |-> 0]

EmptyText ==
    [empty |-> TRUE, neg |-> FALSE, frac |-> <<>>]

ZeroText ==
    [empty |-> FALSE, neg |-> FALSE, frac |-> <<>>]

WeiText(n) ==
    [empty |-> FALSE, neg |-> FALSE, frac |-> Zeros(EtherDecimals - 1) \o <<n>>]

NegWeiText(n) ==
    [empty |-> FALSE, neg |-> TRUE, frac |-> Zeros(EtherDecimals - 1) \o <<n>>]

\* positive, but one digit finer than a wei
TooFineText ==
    [empty |-> FALSE, neg |-> FALSE, frac |-> Zeros(EtherDecimals) \o <<1>>]

\* amounts typed into the Bridge form
FormAmounts ==
    {EmptyText, ZeroText, NegWeiText(1), WeiText(1)}

\* amounts passed to the gateway's submit operations
CallAmounts ==
    {TooFineText} \cup {WeiText(n) : n \in 1..MaxWei}

RECURSIVE DigitsValue(_)
DigitsValue(ds) ==
    IF ds = <<>> THEN 0
    ELSE 10 * DigitsValue(SubSeq(ds, 1, Len(ds) - 1)) + ds[Len(ds)]

RECURSIVE Pow10(_)
Pow10(n) ==
    IF n = 0 THEN 1 ELSE 10 * Pow10(n - 1)

AllZero(ds) ==
    \A i \in 1..Len(ds) : ds[i] = 0

\* sign of parseFloat(text): -1, 0 or 1 (text is non-empty)
ParseFloatSign(t) ==
    IF AllZero(t.frac) THEN 0 ELSE IF t.neg THEN -1 ELSE 1

\* ethers.parseEther throws on an empty text and on more than 18 decimals
ParseEtherThrows(t) ==
    t.empty \/ Len(t.frac) > EtherDecimals

\* ethers.parseEther(text): the text scaled by 10^18, as an integer of wei
ParseEther(t) ==
    IF AllZero(t.frac) THEN 0
    ELSE (IF t.neg THEN -1 ELSE 1) * DigitsValue(t.frac) * Pow10(EtherDecimals - Len(t.frac))

\* -------------------------------------------------------------- messages
MsgConnect == "Please connect your wallet first"
MsgAmount == "Please enter a valid amount"
MsgToken == "Please select a token"
MsgInitiated == "Bridge transaction initiated! Please wait for confirmation on the destination chain."
MsgFailed == "Bridge transaction failed. Please try again."
WarnNeed == "You need $3 USDT balance and approval for bridge fees"
WarnUnable == "Unable to verify USDT fee requirements"

\* ------------------------------------------------------------------- state
VARIABLES
    account,            \* useWallet().account, NoAccount when disconnected
    chainId,            \* useWallet().chainId, NoChain when unknown
    bridgeContract,     \* chain the held bridge contract was built for, or NullContract
    contractLoads,      \* loadContract() calls in flight, by chain
    allowance,          \* ledger: ERC20 allowance(owner, bridge) per owner and token
    ledgerTxs,          \* ledger: handles recorded per user
    call,               \* gateway: the lockTokens/burnAndBridge call in flight
    ops,                \* gateway: ledger operations issued by the call in flight
    ret,                \* gateway: how the latest call ended
    prevLock,           \* gateway: what the latest lockTokens call left behind
    calls,              \* gateway: number of calls made
    fromChain,          \* Bridge state: id of the From chain
    toChain,            \* Bridge state: id of the To chain
    amount,             \* Bridge state: text of the amount field
    destinationAddress, \* Bridge state
    selectedToken,      \* Bridge state: token address or NoToken
    isBridging,         \* Bridge state
    userTransactions,   \* Bridge state: handles shown in the history
    feeWarning,         \* Bridge state
    lastAlert,          \* Bridge: text of the last alert() shown
    hb,                 \* Bridge: the handleBridge invocation in flight
    feeChecks,          \* Bridge: checkFeeRequirements reads in flight
    txLoads,            \* Bridge: getUserTransactions reads in flight
    last,               \* Bridge: how the latest accepted handleBridge ended
    feeVerified,        \* Bridge: accounts whose latest completed check passed
    submitted,          \* Bridge: number of accepted handleBridge invocations
    txStatus,           \* ledger: status code of each recorded transfer
    got,                \* tracker: what getTransaction last returned per handle
    resp,               \* tracker: what the ledger answered to that call
    listed,             \* tracker: what getUserTransactions last returned
    quote,              \* fees: how the latest estimateBridgeFee call ended
    prevQuote,          \* fees: how the call before it ended
    req,                \* fees: how the latest checkFeeRequirements call ended
    prevReq,            \* fees: how the call before it ended
    stakingContract,    \* useStakingContract state: chain it was built for, or NullContract
    esrContract,        \* useStakingContract state
    farmingContract,    \* useFarmingContract state
    initLoads,          \* initializeContract(s)() calls in flight, by hook and chain
    spenderAllowance,   \* ledger: allowance(owner, staking) of ESR, allowance(owner, farming) of the LP token
    stakeCall,          \* the stakeESR/deposit call in flight, or the latest one
    stakeOps,           \* ledger operations issued by that call
    stakeRet,           \* how the latest stakeESR/deposit call ended
    stakeCalls,         \* number of stakeESR/deposit calls made
    bridgeFee,          \* Bridge state: text of the estimated fee
    feeEstimates,       \* Bridge: estimateFee calls in flight
    selector,           \* ChainSelector state: isOpen, showTestnets, isProcessing, errorMessage
    testnetMode         \* the testnetMode prop of Bridge and TestnetModeToggle

walletVars == <<account, chainId>>
hookVars == <<bridgeContract, contractLoads>>
ledgerVars == <<allowance, ledgerTxs>>
gatewayVars == <<call, ops, ret, prevLock, calls>>
formVars == <<fromChain, toChain, amount, destinationAddress, selectedToken>>
pageVars == <<isBridging, userTransactions, feeWarning, lastAlert>>
bridgeVars == <<hb, feeChecks, txLoads, last, feeVerified, submitted>>
trackerVars == <<txStatus, got, resp, listed>>
quoteVars == <<quote, prevQuote, req, prevReq>>
uiVars == <<bridgeFee, feeEstimates, selector, testnetMode>>
stakeVars == <<stakingContract, esrContract, farmingContract, initLoads, spenderAllowance,
               stakeCall, stakeOps, stakeRet, stakeCalls>>

vars == <<walletVars, hookVars, ledgerVars, gatewayVars, formVars, pageVars, bridgeVars,
          trackerVars, quoteVars, stakeVars, uiVars>>

Handles ==
    1..MaxHandles

\* the two approve-then-call operations: stakeESR and the farming deposit
StakeKinds ==
    {"stake", "deposit"}

\* pool ids passed to deposit
Pids ==
    {0}

NotRead ==
    [txId |-> 0, user |-> "", status |-> Pending]

NoResp ==
    [kind |-> "none", status |-> 0, again |-> FALSE]

NoQuote ==
    [via |-> "none", readOk |-> FALSE, rate |-> 0, amount |-> EmptyText, fee |-> EmptyText]

\* the object checkFeeRequirements returns when its read fails
NoRequirements ==
    [hasBalance |-> FALSE, hasAllowance |-> FALSE, balance |-> 0, allowance |-> 0]

NoReq ==
    [via |-> "none", ledger |-> NoRequirements, ret |-> NoRequirements]

NoCall ==
    [pc |-> "idle", kind |-> "none", account |-> NoAccount, contract |-> NullContract,
     token |-> NoToken, amount |-> EmptyText, amountWei |-> 0, allowance |-> 0]

NoStakeCall ==
    [pc |-> "idle", kind |-> "none", account |-> NoAccount, contract |-> NullContract,
     token |-> NullContract, spender |-> NullContract, pid |-> 0, amount |-> EmptyText,
     amountWei |-> 0, allowance |-> 0]

\* errorMessage of the chain selector when it is null
NoError ==
    [kind |-> "null", target |-> NoChain]

NoRet ==
    [outcome |-> "none", failedAt |-> "none"]

NoPrev ==
    [open |-> FALSE, approvedNow |-> FALSE, account |-> NoAccount,
     contract |-> NullContract, token |-> NoToken, amountWei |-> 0]

Idle ==
    [pc |-> "idle", account |-> NoAccount, contract |-> NullContract, chain |-> NoChain,
     token |-> NoToken, native |-> FALSE, target |-> NoChain, from |-> NoChain,
     id |-> 0]

NoLast ==
    [outcome |-> "none", applied |-> 0]

Init ==
    /\ account = NoAccount
    /\ chainId = NoChain
    /\ bridgeContract = NullContract
    /\ contractLoads = {}
    /\ allowance = [k \in Accounts \X TokenAddresses |-> 0]
    /\ ledgerTxs = [a \in Accounts |-> <<>>]
    /\ call = NoCall
    /\ ops = <<>>
    /\ ret = NoRet
    /\ prevLock = NoPrev
    /\ calls = 0
    /\ fromChain = 1
    /\ toChain = 56
    /\ amount = EmptyText
    /\ destinationAddress = ""
    /\ selectedToken = NoToken
    /\ isBridging = FALSE
    /\ userTransactions = <<>>
    /\ feeWarning = ""
    /\ lastAlert = ""
    /\ hb = Idle
    /\ feeChecks = {}
    /\ txLoads = {}
    /\ last = NoLast
    /\ feeVerified = {}
    /\ submitted = 0
    /\ txStatus = [h \in Handles |-> Pending]
    /\ got = [h \in Handles |-> NotRead]
    /\ resp = [h \in Handles |-> NoResp]
    /\ listed = <<>>
    /\ quote = NoQuote
    /\ prevQuote = NoQuote
    /\ req = NoReq
    /\ prevReq = NoReq
    /\ stakingContract = NullContract
    /\ esrContract = NullContract
    /\ farmingContract = NullContract
    /\ initLoads = {}
    /\ spenderAllowance = [k \in Accounts \X StakeKinds |-> 0]
    /\ stakeCall = NoStakeCall
    /\ stakeOps = <<>>
    /\ stakeRet = NoRet
    /\ stakeCalls = 0
    /\ bridgeFee = ZeroText
    /\ feeEstimates = {}
    /\ selector = [isOpen |-> FALSE, showTestnets |-> FALSE, isProcessing |-> FALSE,
                   errorMessage |-> NoError, switching |-> <<>>]
    /\ testnetMode = FALSE

\* ------------------------------------------------- useBridgeContract effect
\* The wallet reports chain c; the effect on [provider, chainId] runs.
ChainEffect(c) ==
    /\ c # chainId
    /\ chainId' = c
    /\ IF getContractAddresses(c) = NullContract
       THEN /\ bridgeContract' = NullContract
            /\ UNCHANGED contractLoads
       ELSE /\ contractLoads' = contractLoads \cup {c}
            /\ UNCHANGED bridgeContract
    /\ UNCHANGED <<uiVars, stakeVars, quoteVars, trackerVars, account, ledgerVars, gatewayVars, formVars, pageVars, bridgeVars>>

\* loadContract() for chain c resumes after getSigner()
LoadContractDone(c) ==
    /\ c \in contractLoads
    /\ contractLoads' = contractLoads \ {c}
    /\ \E signerOk \in BOOLEAN :
         bridgeContract' = IF signerOk THEN getContractAddresses(c) ELSE NullContract
    /\ UNCHANGED <<uiVars, stakeVars, quoteVars, trackerVars, walletVars, ledgerVars, gatewayVars, formVars, pageVars, bridgeVars>>

\* The wallet reports account a to the hook.
AccountChanged(a) ==
    /\ a # account
    /\ account' = a
    /\ UNCHANGED <<uiVars, stakeVars, quoteVars, trackerVars, chainId, hookVars, ledgerVars, gatewayVars, formVars, pageVars, bridgeVars>>

\* ------------------------------------------- useBridgeContract: lockTokens
Range(s) ==
    {s[i] : i \in 1..Len(s)}

\* variant: allowance <= amountWei
NeedsApprovalOrEqual(allow, amountWei) ==
    allow <= amountWei

\* allowance < amountWei
NeedsApproval(allow, amountWei) ==
    allow < amountWei

AllowanceKey(cl) ==
    <<cl.account, cl.token>>

\* what a lockTokens call leaves behind for the next one
PrevAfterLock(cl, issued, confirmed) ==
    IF "lockTokens" \in Range(issued) /\ ~confirmed
    THEN [open |-> TRUE, approvedNow |-> "approveConfirmed" \in Range(issued),
          account |-> cl.account, contract |-> cl.contract, token |-> cl.token,
          amountWei |-> cl.amountWei]
    ELSE NoPrev

\* the call rejects at step `at`
Throw(cl, at, issued) ==
    /\ ret' = [outcome |-> "error", failedAt |-> at]
    /\ call' = NoCall
    /\ ops' = issued
    /\ prevLock' = IF cl.kind = "lock" THEN PrevAfterLock(cl, issued, FALSE) ELSE prevLock

\* the call resolves with the receipt
Return(cl, issued) ==
    /\ ret' = [outcome |-> "ok", failedAt |-> "none"]
    /\ call' = NoCall
    /\ ops' = issued
    /\ prevLock' = IF cl.kind = "lock" THEN NoPrev ELSE prevLock

NewCall(kind, tokenAddress, amt) ==
    [pc |-> "entry", kind |-> kind, account |-> account, contract |-> bridgeContract,
     token |-> tokenAddress, amount |-> amt, amountWei |-> 0, allowance |-> 0]

gatewayFrame == <<uiVars, stakeVars, quoteVars, trackerVars, walletVars, hookVars, formVars, pageVars, bridgeVars>>

\* lockTokens(tokenAddress, amount, ...) up to its first await; callers make
\* one call at a time
LockTokens(tokenAddress, amt) ==
    /\ call.pc = "idle"
    /\ calls < MaxCalls
    /\ calls' = calls + 1
    /\ LET cl == NewCall("lock", tokenAddress, amt)
       IN IF cl.contract = NullContract \/ cl.account = NoAccount
          THEN Throw(cl, "entry", <<>>)
          ELSE /\ call' = [cl EXCEPT !.pc = "getSigner"]
               /\ ops' = <<>>
               /\ ret' = NoRet
               /\ UNCHANGED prevLock
    /\ UNCHANGED <<gatewayFrame, ledgerVars>>

\* await provider.getSigner(), then parseEther(amount)
LockGetSigner ==
    /\ call.pc = "getSigner"
    /\ \E ok \in BOOLEAN :
         IF ~ok
         THEN Throw(call, "getSigner", ops)
         ELSE IF ParseEtherThrows(call.amount)
         THEN Throw(call, "parseEther", ops)
         ELSE /\ call' = [call EXCEPT !.pc = "allowance", !.amountWei = ParseEther(call.amount)]
              /\ UNCHANGED <<ops, ret, prevLock>>
    /\ UNCHANGED <<gatewayFrame, ledgerVars, calls>>

\* await tokenContract.allowance(account, bridgeAddress), then the comparison
\* and the call it leads to
LockAllowance ==
    /\ call.pc = "allowance"
    /\ \E ok \in BOOLEAN :
         IF ~ok
         THEN Throw(call, "allowance", ops)
         ELSE LET v == allowance[AllowanceKey(call)]
              IN /\ IF NeedsApproval(v, call.amountWei)
                    THEN /\ call' = [call EXCEPT !.pc = "approve", !.allowance = v]
                         /\ ops' = ops \o <<"allowance", "approve">>
                    ELSE /\ call' = [call EXCEPT !.pc = "lock", !.allowance = v]
                         /\ ops' = ops \o <<"allowance", "lockTokens">>
                 /\ UNCHANGED <<ret, prevLock>>
    /\ UNCHANGED <<gatewayFrame, ledgerVars, calls>>

\* variant: the lock call is issued as soon as approve() returned, without
\* awaiting approveTx.wait()
LockApproveSentNoWait ==
    /\ call.pc = "approve"
    /\ \E ok \in BOOLEAN :
         IF ~ok
         THEN Throw(call, "approve", ops)
         ELSE /\ call' = [call EXCEPT !.pc = "lock"]
              /\ ops' = ops \o <<"lockTokens">>
              /\ UNCHANGED <<ret, prevLock>>
    /\ UNCHANGED <<gatewayFrame, ledgerVars, calls>>

\* await tokenContract.approve(bridgeAddress, amountWei)
LockApproveSent ==
    /\ call.pc = "approve"
    /\ \E ok \in BOOLEAN :
         IF ~ok
         THEN Throw(call, "approve", ops)
         ELSE /\ call' = [call EXCEPT !.pc = "approveWait"]
              /\ UNCHANGED <<ops, ret, prevLock>>
    /\ UNCHANGED <<gatewayFrame, ledgerVars, calls>>

\* variant: a failed approval confirmation is swallowed and the lock call is
\* issued all the same
LockApproveWaitSwallow ==
    /\ call.pc = "approveWait"
    /\ \E ok \in BOOLEAN :
         /\ allowance' = IF ok
                          THEN [allowance EXCEPT ![AllowanceKey(call)] = call.amountWei]
                          ELSE allowance
         /\ call' = [call EXCEPT !.pc = "lock"]
         /\ ops' = ops \o (IF ok THEN <<"approveConfirmed">> ELSE <<>>) \o <<"lockTokens">>
         /\ UNCHANGED <<ret, prevLock>>
    /\ UNCHANGED <<gatewayFrame, ledgerTxs, calls>>

\* await approveTx.wait(): mined, the allowance is the approved amount and
\* the lock call is issued; or reverted
LockApproveWait ==
    /\ call.pc = "approveWait"
    /\ \E ok \in BOOLEAN :
         IF ~ok
         THEN /\ Throw(call, "approveWait", ops)
              /\ UNCHANGED allowance
         ELSE /\ allowance' = [allowance EXCEPT ![AllowanceKey(call)] = call.amountWei]
              /\ call' = [call EXCEPT !.pc = "lock"]
              /\ ops' = ops \o <<"approveConfirmed", "lockTokens">>
              /\ UNCHANGED <<ret, prevLock>>
    /\ UNCHANGED <<gatewayFrame, ledgerTxs, calls>>

\* await bridgeContract.lockTokens(...)
LockSent ==
    /\ call.pc = "lock"
    /\ \E ok \in BOOLEAN :
         IF ~ok
         THEN Throw(call, "lock", ops)
         ELSE /\ call' = [call EXCEPT !.pc = "lockWait"]
              /\ UNCHANGED <<ops, ret, prevLock>>
    /\ UNCHANGED <<gatewayFrame, ledgerVars, calls>>

\* tx.wait() of the lock: mined (the bridge pulls the tokens and records the
\* transfer under a new handle) or reverted
LockWait ==
    /\ call.pc = "lockWait"
    /\ \E ok \in BOOLEAN :
         IF ~ok
         THEN /\ Throw(call, "lockWait", ops)
              /\ UNCHANGED ledgerVars
         ELSE /\ allowance' = [allowance EXCEPT ![AllowanceKey(call)] = @ - call.amountWei]
              /\ ledgerTxs' = [ledgerTxs EXCEPT ![call.account] = Append(@, calls)]
              /\ Return(call, ops \o <<"lockConfirmed">>)
    /\ UNCHANGED <<gatewayFrame, calls>>

\* ----------------------------------------- useBridgeContract: burnAndBridge
\* burnAndBridge(tokenAddress, amount, ...) up to its first await: the burn
\* call is issued at once
BurnAndBridge(tokenAddress, amt) ==
    /\ call.pc = "idle"
    /\ calls < MaxCalls
    /\ calls' = calls + 1
    /\ LET cl == NewCall("burn", tokenAddress, amt)
       IN IF cl.contract = NullContract \/ cl.account = NoAccount
          THEN Throw(cl, "entry", <<>>)
          ELSE IF ParseEtherThrows(amt)
          THEN Throw(cl, "parseEther", <<>>)
          ELSE /\ call' = [cl EXCEPT !.pc = "burn", !.amountWei = ParseEther(amt)]
               /\ ops' = <<"burnAndBridge">>
               /\ ret' = NoRet
               /\ UNCHANGED prevLock
    /\ UNCHANGED <<gatewayFrame, ledgerVars>>

\* await bridgeContract.burnAndBridge(...)
BurnSent ==
    /\ call.pc = "burn"
    /\ \E ok \in BOOLEAN :
         IF ~ok
         THEN Throw(call, "burn", ops)
         ELSE /\ call' = [call EXCEPT !.pc = "burnWait"]
              /\ UNCHANGED <<ops, ret, prevLock>>
    /\ UNCHANGED <<gatewayFrame, ledgerVars, calls>>

\* tx.wait() of the burn: mined (recorded under a new handle) or reverted
BurnWait ==
    /\ call.pc = "burnWait"
    /\ \E ok \in BOOLEAN :
         IF ~ok
         THEN /\ Throw(call, "burnWait", ops)
              /\ UNCHANGED ledgerVars
         ELSE /\ ledgerTxs' = [ledgerTxs EXCEPT ![call.account] = Append(@, calls)]
              /\ Return(call, ops \o <<"burnConfirmed">>)
              /\ UNCHANGED allowance
    /\ UNCHANGED <<gatewayFrame, calls>>

NextGateway ==
    \/ \E c \in WalletChains : ChainEffect(c)
    \/ \E c \in WalletChains : LoadContractDone(c)
    \/ \E a \in Accounts \cup {NoAccount} : AccountChanged(a)
    \/ \E t \in TokenAddresses, amt \in CallAmounts : LockTokens(t, amt)
    \/ \E t \in TokenAddresses, amt \in CallAmounts : BurnAndBridge(t, amt)
    \/ LockGetSigner
    \/ LockAllowance
    \/ LockApproveSent
    \/ LockApproveWait
    \/ LockSent
    \/ LockWait
    \/ BurnSent
    \/ BurnWait

SpecGateway ==
    Init /\ [][NextGateway]_vars

\* ------------------------------------------------------ Bridge: data loads
\* loadUserTransactions() called from a render with account a and bridge
\* contract ctr; tag is "bridge" for the reload of the latest handleBridge and
\* "other" for every other read, loads are the reads already in flight.
LoadUserTransactionsCall(a, ctr, tag, loads) ==
    IF a = NoAccount
    THEN /\ txLoads' = loads
         /\ UNCHANGED userTransactions
    ELSE IF ctr = NullContract
    THEN /\ txLoads' = loads
         /\ userTransactions' = <<>>
    ELSE /\ txLoads' = loads \cup {[account |-> a, contract |-> ctr, origin |-> tag,
                                     state |-> "sent", txs |-> <<>>]}
         /\ UNCHANGED userTransactions

\* checkUSDTFeeRequirements() called from a render with account a
CheckUSDTFeeRequirementsCall(a) ==
    IF a = NoAccount
    THEN UNCHANGED <<feeChecks, feeWarning>>
    ELSE IF bridgeContract = NullContract
    THEN /\ feeWarning' = WarnUnable
         /\ UNCHANGED feeChecks
    ELSE /\ feeChecks' = feeChecks \cup {[account |-> a, contract |-> bridgeContract]}
         /\ UNCHANGED feeWarning

\* The wallet reports account a; the effect on [account] runs.
AccountEffect(a) ==
    /\ a # account
    /\ account' = a
    /\ IF a # NoAccount
       THEN /\ CheckUSDTFeeRequirementsCall(a)
            /\ LoadUserTransactionsCall(a, bridgeContract, "other", txLoads)
       ELSE UNCHANGED <<feeChecks, feeWarning, txLoads, userTransactions>>
    /\ UNCHANGED <<uiVars, stakeVars, quoteVars, trackerVars, chainId, hookVars, ledgerVars, gatewayVars, formVars, isBridging,
                   lastAlert, hb, last, feeVerified, submitted>>

\* checkFeeRequirements read resolves: the ledger's flags, or a failed read
\* that the hook turns into {false, false}
CheckFeeDone(chk) ==
    /\ chk \in feeChecks
    /\ feeChecks' = feeChecks \ {chk}
    /\ \E readOk \in BOOLEAN, hasBalance \in BOOLEAN, hasAllowance \in BOOLEAN :
         LET hasB == readOk /\ hasBalance
             hasA == readOk /\ hasAllowance
         IN /\ (readOk \/ (hasBalance /\ hasAllowance))
            /\ feeWarning' = IF ~hasB \/ ~hasA THEN WarnNeed ELSE ""
            /\ feeVerified' = IF hasB /\ hasA
                              THEN feeVerified \cup {chk.account}
                              ELSE feeVerified \ {chk.account}
    /\ UNCHANGED <<uiVars, stakeVars, quoteVars, trackerVars, walletVars, hookVars, ledgerVars, gatewayVars, formVars, isBridging,
                   userTransactions, lastAlert, hb, txLoads, last, submitted>>

\* the ledger serves the read of a getUserTransactions call in flight with
\* its list for the user at that moment
LoadUserTransactionsRead(ld) ==
    /\ ld \in txLoads
    /\ ld.state = "sent"
    /\ txLoads' = (txLoads \ {ld}) \cup
                      {[ld EXCEPT !.state = "ok", !.txs = ledgerTxs[ld.account]]}
    /\ UNCHANGED <<uiVars, stakeVars, quoteVars, trackerVars, walletVars, hookVars, ledgerVars, gatewayVars, formVars, pageVars,
                   hb, feeChecks, last, feeVerified, submitted>>

\* await getUserTransactions(account) resumes with the list read, or, for a
\* read that was not served and throws, with []: setUserTransactions(txs)
LoadUserTransactionsDone(ld) ==
    /\ ld \in txLoads
    /\ txLoads' = txLoads \ {ld}
    /\ userTransactions' = IF ld.state = "ok" THEN ld.txs ELSE <<>>
    /\ last' = IF ld.origin = "bridge" THEN [last EXCEPT !.applied = @ + 1] ELSE last
    /\ UNCHANGED <<uiVars, stakeVars, quoteVars, trackerVars, walletVars, hookVars, ledgerVars, gatewayVars, formVars, isBridging,
                   feeWarning, lastAlert, hb, feeChecks, feeVerified, submitted>>

\* ------------------------------------------------------ Bridge: form input
formFrame == <<uiVars, stakeVars, quoteVars, trackerVars, walletVars, hookVars, ledgerVars, gatewayVars, pageVars, bridgeVars>>

\* the chains of CHAIN_CONFIG whose isTestnet equals testnetMode
availableChains ==
    {c \in AvailableChains \cup TestnetChains : isTestnetChain(c) = testnetMode}

SetFromChain(c) ==
    /\ c \in availableChains
    /\ fromChain' = c
    /\ UNCHANGED <<formFrame, toChain, amount, destinationAddress, selectedToken>>

SetToChain(c) ==
    /\ c \in availableChains
    /\ c # fromChain
    /\ toChain' = c
    /\ UNCHANGED <<formFrame, fromChain, amount, destinationAddress, selectedToken>>

SetSelectedToken(t) ==
    /\ t \in {NoToken} \cup {tok.address : tok \in availableTokens(chainId)}
    /\ selectedToken' = t
    /\ UNCHANGED <<formFrame, fromChain, toChain, amount, destinationAddress>>

SetAmount(t) ==
    /\ t \in FormAmounts
    /\ amount' = t
    /\ UNCHANGED <<formFrame, fromChain, toChain, destinationAddress, selectedToken>>

\* ---------------------------------------------------- Bridge: handleBridge
isConnected ==
    account # NoAccount

\* the disabled attribute of the bridge button
BridgeDisabled ==
    amount.empty \/ selectedToken = NoToken \/ ~isConnected \/ isBridging \/ feeWarning # ""

\* variant: !amount || parseFloat(amount) < 0
InvalidAmountStrict(t) ==
    t.empty \/ ParseFloatSign(t) < 0

\* !amount || parseFloat(amount) <= 0
InvalidAmount(t) ==
    t.empty \/ ParseFloatSign(t) <= 0

\* variant: any token found among the tokens counts as native
isNativeTokenFound(tokens, sel, chain) ==
    \E tok \in tokens : tok.address = sel

\* token?.chainId === chainId, token found by address among the tokens
isNativeToken(tokens, sel, chain) ==
    \E tok \in tokens : tok.address = sel /\ tok.chainId = chain

\* reads called by an earlier invocation are no longer the latest one's
Retag(loads) ==
    {[ld EXCEPT !.origin = "other"] : ld \in loads}

\* variant: the catch without the finally block
BridgeCatchKeepsFlag(loads) ==
    /\ lastAlert' = MsgFailed
    /\ hb' = Idle
    /\ txLoads' = loads
    /\ last' = [outcome |-> "error", applied |-> 0]
    /\ UNCHANGED <<amount, destinationAddress, userTransactions, isBridging>>

\* catch and finally of handleBridge
BridgeCatch(loads) ==
    /\ lastAlert' = MsgFailed
    /\ isBridging' = FALSE
    /\ hb' = Idle
    /\ txLoads' = loads
    /\ last' = [outcome |-> "error", applied |-> 0]
    /\ UNCHANGED <<amount, destinationAddress, userTransactions>>

\* variant: the try block ends without loadUserTransactions()
BridgeSucceededNoReload(h) ==
    /\ lastAlert' = MsgInitiated
    /\ amount' = EmptyText
    /\ destinationAddress' = ""
    /\ UNCHANGED <<txLoads, userTransactions>>
    /\ isBridging' = FALSE
    /\ hb' = Idle
    /\ last' = [outcome |-> "ok", applied |-> 0]

\* rest of the try block of handleBridge after the gateway call returned,
\* then finally
BridgeSucceeded(h) ==
    /\ lastAlert' = MsgInitiated
    /\ amount' = EmptyText
    /\ destinationAddress' = ""
    /\ LoadUserTransactionsCall(h.account, h.contract, "bridge", txLoads)
    /\ isBridging' = FALSE
    /\ hb' = Idle
    /\ last' = [outcome |-> "ok", applied |-> 0]

\* the gateway call handleBridge makes, with the values of its render
Accepted ==
    [pc |-> "start", account |-> account, contract |-> bridgeContract, chain |-> chainId,
     token |-> selectedToken,
     native |-> isNativeToken(availableTokens(chainId), selectedToken, chainId),
     target |-> toChain, from |-> fromChain, id |-> submitted + 1]

\* the call rejects before its first await
RejectsAtOnce(h) ==
    \/ h.contract = NullContract
    \/ h.account = NoAccount
    \/ (~h.native /\ ParseEtherThrows(amount))

\* click on the bridge button.  The gateway call (lockTokens or burnAndBridge,
\* stepped through in SpecGateway) is awaited as one operation here.
HandleBridge ==
    /\ ~BridgeDisabled
    /\ IF ~isConnected
       THEN /\ lastAlert' = MsgConnect
            /\ UNCHANGED <<amount, destinationAddress, isBridging, userTransactions,
                           hb, txLoads, last, submitted>>
       ELSE IF InvalidAmount(amount)
       THEN /\ lastAlert' = MsgAmount
            /\ UNCHANGED <<amount, destinationAddress, isBridging, userTransactions,
                           hb, txLoads, last, submitted>>
       ELSE IF selectedToken = NoToken
       THEN /\ lastAlert' = MsgToken
            /\ UNCHANGED <<amount, destinationAddress, isBridging, userTransactions,
                           hb, txLoads, last, submitted>>
       ELSE /\ submitted < MaxSubmits
            /\ submitted' = submitted + 1
            /\ IF RejectsAtOnce(Accepted)
               THEN BridgeCatch(Retag(txLoads))
               ELSE /\ hb' = [Accepted EXCEPT !.pc = IF Accepted.native
                                                    THEN "lockTokens" ELSE "burnAndBridge"]
                    /\ isBridging' = TRUE
                    /\ txLoads' = Retag(txLoads)
                    /\ last' = NoLast
                    /\ UNCHANGED <<amount, destinationAddress, userTransactions, lastAlert>>
    /\ UNCHANGED <<uiVars, stakeVars, quoteVars, trackerVars, walletVars, hookVars, ledgerVars, gatewayVars, fromChain, toChain,
                   selectedToken, feeWarning, feeChecks, feeVerified>>

\* variant: a lock that throws is followed by burnAndBridge
LockTokensSettledThenBurn ==
    /\ hb.pc = "lockTokens"
    /\ \E ok \in BOOLEAN :
         IF ok
         THEN /\ ledgerTxs' = [ledgerTxs EXCEPT ![hb.account] = Append(@, hb.id)]
              /\ BridgeSucceeded(hb)
         ELSE /\ hb' = [hb EXCEPT !.pc = "burnAndBridge"]
              /\ UNCHANGED <<ledgerTxs, amount, destinationAddress, userTransactions,
                             lastAlert, isBridging, txLoads, last>>
    /\ UNCHANGED <<uiVars, stakeVars, quoteVars, trackerVars, walletVars, hookVars, allowance, gatewayVars,
                   fromChain, toChain, selectedToken, feeWarning, feeChecks, feeVerified,
                   submitted>>

\* await lockTokens(...) settles: the receipt, or the error thrown
LockTokensSettled ==
    /\ hb.pc = "lockTokens"
    /\ \E ok \in BOOLEAN :
         IF ok
         THEN /\ ledgerTxs' = [ledgerTxs EXCEPT ![hb.account] = Append(@, hb.id)]
              /\ BridgeSucceeded(hb)
         ELSE /\ BridgeCatch(txLoads)
              /\ UNCHANGED ledgerTxs
    /\ UNCHANGED <<uiVars, stakeVars, quoteVars, trackerVars, walletVars, hookVars, allowance, gatewayVars, fromChain, toChain,
                   selectedToken, feeWarning, feeChecks, feeVerified, submitted>>

\* await burnAndBridge(...) settles: the receipt, or the error thrown
BurnAndBridgeSettled ==
    /\ hb.pc = "burnAndBridge"
    /\ \E ok \in BOOLEAN :
         IF ok
         THEN /\ ledgerTxs' = [ledgerTxs EXCEPT ![hb.account] = Append(@, hb.id)]
              /\ BridgeSucceeded(hb)
         ELSE /\ BridgeCatch(txLoads)
              /\ UNCHANGED ledgerTxs
    /\ UNCHANGED <<uiVars, stakeVars, quoteVars, trackerVars, walletVars, hookVars, allowance, gatewayVars, fromChain, toChain,
                   selectedToken, feeWarning, feeChecks, feeVerified, submitted>>

Next ==
    \/ \E c \in WalletChains : ChainEffect(c)
    \/ \E c \in WalletChains : LoadContractDone(c)
    \/ \E a \in Accounts \cup {NoAccount} : AccountEffect(a)
    \/ \E chk \in feeChecks : CheckFeeDone(chk)
    \/ \E ld \in txLoads : LoadUserTransactionsRead(ld)
    \/ \E ld \in txLoads : LoadUserTransactionsDone(ld)
    \/ \E t \in TokenAddresses \cup {NoToken} : SetSelectedToken(t)
    \/ \E t \in FormAmounts : SetAmount(t)
    \/ HandleBridge
    \/ LockTokensSettled
    \/ BurnAndBridgeSettled

\* The From and To selections reach handleBridge only as the target chain it
\* passes on; they are left as loaded in Spec and selected in SpecForm.
Spec ==
    Init /\ [][Next]_vars

\* the form with its chain selectors, up to the gateway call settling
NextForm ==
    \/ \E c \in WalletChains : ChainEffect(c)
    \/ \E c \in WalletChains : LoadContractDone(c)
    \/ \E a \in Accounts \cup {NoAccount} : AccountEffect(a)
    \/ \E c \in AvailableChains : SetFromChain(c)
    \/ \E c \in AvailableChains : SetToChain(c)
    \/ \E t \in TokenAddresses \cup {NoToken} : SetSelectedToken(t)
    \/ \E t \in FormAmounts : SetAmount(t)
    \/ HandleBridge
    \/ LockTokensSettled
    \/ BurnAndBridgeSettled

SpecForm ==
    Init /\ [][NextForm]_vars

\* ----------------------------------------- useBridgeContract: getTransaction
\* the ledger holds a record for handle h
Recorded(h) ==
    \E a \in Accounts : h \in Range(ledgerTxs[a])

\* the record on the ledger for handle h
LedgerRecord(h) ==
    [txId |-> h, user |-> "0xA", status |-> txStatus[h]]

\* what a read of a handle without a record yields when it does not throw
ZeroRecord ==
    [txId |-> 0, user |-> "", status |-> 0]

\* the object returned when the contract is missing and when the read throws
DefaultTransaction(h) ==
    [txId |-> h, user |-> "", status |-> Pending]

\* variant: (tx.status || 1) as BridgeStatus
FromLedgerOrLocked(h, tx) ==
    [txId |-> IF tx.txId # 0 THEN tx.txId ELSE h,
     user |-> tx.user,
     status |-> IF tx.status # 0 THEN tx.status ELSE Locked]

\* the object built from a successful read: tx.txId || txId, tx.user || '',
\* (tx.status || 0) as BridgeStatus
FromLedger(h, tx) ==
    [txId |-> IF tx.txId # 0 THEN tx.txId ELSE h,
     user |-> tx.user,
     status |-> IF tx.status # 0 THEN tx.status ELSE Pending]

trackerFrame == <<uiVars, stakeVars, quoteVars, walletVars, hookVars, ledgerVars, gatewayVars, formVars, pageVars, bridgeVars>>

\* what getTransaction(h) resolves with when bridgeContract.getTransaction
\* answered (threw = FALSE) or threw
Resolved(h, threw) ==
    IF threw THEN DefaultTransaction(h)
    ELSE FromLedger(h, IF Recorded(h) THEN LedgerRecord(h) ELSE ZeroRecord)

\* the answer to a call for h, for the record: its kind, the status reported,
\* and whether the previous call for h was answered the same
Noted(h, kind, status) ==
    [kind |-> kind, status |-> status,
     again |-> resp[h].kind = kind /\ resp[h].status = status]

Answer(h, threw) ==
    IF ~Recorded(h) THEN Noted(h, "absent", 0)
    ELSE IF threw THEN Noted(h, "failed", 0)
    ELSE Noted(h, "record", txStatus[h])

\* variant: a read that fails again after a failed read gives the transfer up
GetTransactionGivesUp(h) ==
    /\ IF bridgeContract = NullContract
       THEN /\ got' = [got EXCEPT ![h] = DefaultTransaction(h)]
            /\ resp' = [resp EXCEPT ![h] = Noted(h, "noContract", 0)]
       ELSE \E threw \in BOOLEAN :
              /\ got' = [got EXCEPT ![h] =
                            IF threw /\ resp[h].kind = "failed"
                            THEN [DefaultTransaction(h) EXCEPT !.status = Failed]
                            ELSE Resolved(h, threw)]
              /\ resp' = [resp EXCEPT ![h] = Answer(h, threw)]
    /\ UNCHANGED <<trackerFrame, txStatus, listed>>

\* getTransaction(h), from the call to the value it resolves with.  A read of
\* a handle the ledger has no record of throws or answers with a zero record.
GetTransaction(h) ==
    /\ IF bridgeContract = NullContract
       THEN /\ got' = [got EXCEPT ![h] = DefaultTransaction(h)]
            /\ resp' = [resp EXCEPT ![h] = Noted(h, "noContract", 0)]
       ELSE \E threw \in BOOLEAN :
              /\ got' = [got EXCEPT ![h] = Resolved(h, threw)]
              /\ resp' = [resp EXCEPT ![h] = Answer(h, threw)]
    /\ UNCHANGED <<trackerFrame, txStatus, listed>>

\* getUserTransactions(a), from the call to the list it resolves with
GetUserTransactions(a) ==
    /\ IF bridgeContract = NullContract \/ a = NoAccount
       THEN listed' = <<>>
       ELSE \E threw \in BOOLEAN :
              listed' = IF threw THEN <<>> ELSE ledgerTxs[a]
    /\ UNCHANGED <<trackerFrame, txStatus, got, resp>>

\* the ledger records a transfer of the user under the next handle
LedgerRecorded(h) ==
    /\ ~Recorded(h)
    /\ h = Len(ledgerTxs["0xA"]) + 1
    /\ ledgerTxs' = [ledgerTxs EXCEPT !["0xA"] = Append(@, h)]
    /\ UNCHANGED <<walletVars, hookVars, allowance, gatewayVars, formVars, pageVars,
                   bridgeVars, trackerVars, quoteVars, stakeVars, uiVars>>

\* the ledger moves a transfer on: Pending -> Locked -> Released -> Completed,
\* or to Failed from any state before Completed
LedgerAdvance(h) ==
    /\ Recorded(h)
    /\ txStatus[h] \in {Pending, Locked, Released}
    /\ \E s \in {txStatus[h] + 1, Failed} :
         txStatus' = [txStatus EXCEPT ![h] = s]
    /\ UNCHANGED <<trackerFrame, got, resp, listed>>

NextTracker ==
    \/ \E c \in WalletChains : ChainEffect(c)
    \/ \E c \in WalletChains : LoadContractDone(c)
    \/ \E h \in Handles : LedgerRecorded(h)
    \/ \E h \in Handles : LedgerAdvance(h)
    \/ \E h \in Handles : GetTransaction(h)

SpecTracker ==
    Init /\ [][NextTracker]_vars

\* the tracker's two reads together: list the user's handles, read each
NextRefreshAll ==
    \/ NextTracker
    \/ \E a \in Accounts : GetUserTransactions(a)

SpecRefreshAll ==
    Init /\ [][NextRefreshAll]_vars

\* -------------------------------------- useBridgeContract: estimateBridgeFee
\* decimal digits of a natural number
RECURSIVE Digits(_)
Digits(n) ==
    IF n < 10 THEN <<n>> ELSE Digits(n \div 10) \o <<n % 10>>

RECURSIVE StripZeros(_)
StripZeros(ds) ==
    IF ds # <<>> /\ ds[Len(ds)] = 0 THEN StripZeros(SubSeq(ds, 1, Len(ds) - 1)) ELSE ds

\* the text "0.<18 digits>" of n wei, as typed with all its decimals
AmountText(n, neg) ==
    [empty |-> FALSE, neg |-> neg, frac |-> Zeros(EtherDecimals - Len(Digits(n))) \o Digits(n)]

\* ethers.formatEther(wei) for less than one ether: sign, "0." and the
\* decimals without trailing zeros, at least one ("0.0" for 0)
FormatEther(wei) ==
    LET a == IF wei < 0 THEN -wei ELSE wei
        ds == StripZeros(Zeros(EtherDecimals - Len(Digits(a))) \o Digits(a))
    IN [empty |-> FALSE, neg |-> wei < 0, frac |-> IF ds = <<>> THEN <<0>> ELSE ds]

\* BigInt division: the quotient truncated toward zero
BigIntDiv(a, b) ==
    IF a >= 0 THEN a \div b ELSE -((-a) \div b)

\* amounts passed to estimateBridgeFee
FeeWeis ==
    {0} \cup ((MaxFeeWei - 2)..MaxFeeWei)

FeeAmounts ==
    {TooFineText} \cup {AmountText(n, neg) : n \in FeeWeis, neg \in BOOLEAN}

\* fee rates the ledger reports for a token, in basis points
FeeRates ==
    {0, DefaultFeeBps, FeeDenominator}

\* (amountBN * BigInt(tokenInfo.fee || 250)) / BigInt(10000)
LedgerRateFee(amountBN, fee) ==
    BigIntDiv(amountBN * (IF fee # 0 THEN fee ELSE DefaultFeeBps), FeeDenominator)

\* variant: (parseEther(amount) * BigInt(250)) / BigInt(1000)
DefaultRateFeeTenfold(amountBN) ==
    BigIntDiv(amountBN * DefaultFeeBps, FeeDenominator \div 10)

\* (ethers.parseEther(amount) * BigInt(250)) / BigInt(10000)
DefaultRateFee(amountBN) ==
    BigIntDiv(amountBN * DefaultFeeBps, FeeDenominator)

\* what the call ended with, for the record
Quoted(via, readOk, rate, amt, fee) ==
    [via |-> via, readOk |-> readOk, rate |-> rate, amount |-> amt, fee |-> fee]

\* estimateBridgeFee(tokenAddress, amount), from the call to how it ends:
\* thrown without a contract; else supportedTokens is read, and the fee is
\* quoted at the ledger's rate, or at the default rate when the read throws,
\* or '0' when parseEther throws in the inner try and again in its catch
EstimateBridgeFee(tokenAddress, amt) ==
    /\ prevQuote' = quote
    /\ IF bridgeContract = NullContract
       THEN quote' = Quoted("thrown", FALSE, 0, amt, EmptyText)
       ELSE \E readOk \in BOOLEAN, rate \in FeeRates :
              /\ readOk \/ rate = 0
              /\ quote' = IF ParseEtherThrows(amt)
                          THEN Quoted("zero", readOk, rate, amt, ZeroText)
                          ELSE IF readOk
                          THEN Quoted("ledger", TRUE, rate, amt,
                                      FormatEther(LedgerRateFee(ParseEther(amt), rate)))
                          ELSE Quoted("default", FALSE, rate, amt,
                                      FormatEther(DefaultRateFee(ParseEther(amt))))
    /\ UNCHANGED <<walletVars, hookVars, ledgerVars, gatewayVars, formVars, pageVars,
                   bridgeVars, trackerVars, req, prevReq, stakeVars, uiVars>>

NextFee ==
    \/ \E c \in WalletChains : ChainEffect(c)
    \/ \E c \in WalletChains : LoadContractDone(c)
    \/ \E t \in TokenAddresses, amt \in FeeAmounts : EstimateBridgeFee(t, amt)

SpecFee ==
    Init /\ [][NextFee]_vars

\* ----------------------------------- useBridgeContract: checkFeeRequirements
\* USDT amounts the ledger reports as balance and allowance: none, or the fee
FeeBalances ==
    {0, 3}

\* what bridgeContract.checkFeeRequirements(address) can report
LedgerRequirements ==
    [hasBalance : BOOLEAN, hasAllowance : BOOLEAN,
     balance : FeeBalances, allowance : FeeBalances]

\* variant: one flag for both requirements
RequirementsMerged(requirements) ==
    [hasBalance |-> requirements.hasBalance /\ requirements.hasAllowance,
     hasAllowance |-> requirements.hasBalance /\ requirements.hasAllowance,
     balance |-> requirements.balance,
     allowance |-> requirements.allowance]

\* the object returned after a successful read
Requirements(requirements) ==
    [hasBalance |-> requirements.hasBalance,
     hasAllowance |-> requirements.hasAllowance,
     balance |-> requirements.balance,
     allowance |-> requirements.allowance]

\* checkFeeRequirements(userAddress), from the call to how it ends: thrown
\* without a contract or an address; else what the ledger reports, or the
\* all-false object when the read throws
CheckFeeRequirements(userAddress) ==
    /\ prevReq' = req
    /\ LET address == IF userAddress # NoAccount THEN userAddress ELSE account
       IN IF bridgeContract = NullContract \/ address = NoAccount
          THEN req' = [via |-> "thrown", ledger |-> NoRequirements, ret |-> NoRequirements]
          ELSE \E requirements \in LedgerRequirements, readOk \in BOOLEAN :
                 req' = IF readOk
                        THEN [via |-> "read", ledger |-> requirements,
                              ret |-> Requirements(requirements)]
                        ELSE [via |-> "failed", ledger |-> requirements,
                              ret |-> NoRequirements]
    /\ UNCHANGED <<walletVars, hookVars, ledgerVars, gatewayVars, formVars, pageVars,
                   bridgeVars, trackerVars, quote, prevQuote, stakeVars, uiVars>>

NextFeeCheck ==
    \/ \E c \in WalletChains : ChainEffect(c)
    \/ \E c \in WalletChains : LoadContractDone(c)
    \/ \E a \in Accounts \cup {NoAccount} : AccountChanged(a)
    \/ \E a \in Accounts \cup {NoAccount} : CheckFeeRequirements(a)

SpecFeeCheck ==
    Init /\ [][NextFeeCheck]_vars

\* --------------------------------- useStakingContract, useFarmingContract
stakeFrame == <<uiVars, quoteVars, trackerVars, hookVars, ledgerVars, gatewayVars, formVars, pageVars,
                bridgeVars>>

\* The wallet reports chain c; the effects on [provider, chainId] of the two
\* hooks run.  Without a chain the contracts are dropped; on a chain without
\* addresses both effects return and leave the contracts they hold.
InitializeEffect(c) ==
    /\ c # chainId
    /\ chainId' = c
    /\ IF c = NoChain
       THEN /\ stakingContract' = NullContract
            /\ esrContract' = NullContract
            /\ farmingContract' = NullContract
            /\ UNCHANGED initLoads
       ELSE IF getContractAddresses(c) = NullContract
       THEN UNCHANGED <<stakingContract, esrContract, farmingContract, initLoads>>
       ELSE /\ initLoads' = initLoads \cup {<<"staking", c>>, <<"farming", c>>}
            /\ UNCHANGED <<stakingContract, esrContract, farmingContract>>
    /\ UNCHANGED <<stakeFrame, account, spenderAllowance, stakeCall, stakeOps, stakeRet,
                   stakeCalls>>

\* initializeContracts() of useStakingContract resumes after getSigner(); a
\* throw is logged and the contracts held are kept
InitializeContractsDone(c) ==
    /\ <<"staking", c>> \in initLoads
    /\ initLoads' = initLoads \ {<<"staking", c>>}
    /\ \E signerOk \in BOOLEAN :
         IF signerOk
         THEN /\ stakingContract' = getContractAddresses(c)
              /\ esrContract' = getContractAddresses(c)
         ELSE UNCHANGED <<stakingContract, esrContract>>
    /\ UNCHANGED <<stakeFrame, walletVars, farmingContract, spenderAllowance, stakeCall,
                   stakeOps, stakeRet, stakeCalls>>

\* initializeContract() of useFarmingContract resumes after getSigner()
InitializeContractDone(c) ==
    /\ <<"farming", c>> \in initLoads
    /\ initLoads' = initLoads \ {<<"farming", c>>}
    /\ \E signerOk \in BOOLEAN :
         farmingContract' = IF signerOk THEN getContractAddresses(c) ELSE farmingContract
    /\ UNCHANGED <<stakeFrame, walletVars, stakingContract, esrContract, spenderAllowance,
                   stakeCall, stakeOps, stakeRet, stakeCalls>>

SpenderKey(cl) ==
    <<cl.account, cl.kind>>

\* name of the submit operation of a call
SubmitOp(kind) ==
    IF kind = "stake" THEN "stake" ELSE "deposit"

ConfirmedOp(kind) ==
    IF kind = "stake" THEN "stakeConfirmed" ELSE "depositConfirmed"

\* the call rejects at step `at`
StakeThrow(cl, at, issued) ==
    /\ stakeRet' = [outcome |-> "error", failedAt |-> at]
    /\ stakeCall' = [cl EXCEPT !.pc = "idle"]
    /\ stakeOps' = issued

\* the call resolves with the receipt
StakeReturn(cl, issued) ==
    /\ stakeRet' = [outcome |-> "ok", failedAt |-> "none"]
    /\ stakeCall' = [cl EXCEPT !.pc = "idle"]
    /\ stakeOps' = issued

stepFrame == <<stakeFrame, walletVars, stakingContract, esrContract, farmingContract,
               initLoads, stakeCalls>>

\* stakeESR(amount) up to its first await, the allowance read
StakeESR(amt) ==
    /\ stakeCall.pc = "idle"
    /\ stakeCalls < MaxCalls
    /\ stakeCalls' = stakeCalls + 1
    /\ LET cl == [pc |-> "entry", kind |-> "stake", account |-> account,
                  contract |-> stakingContract, token |-> esrContract,
                  spender |-> getContractAddresses(chainId), pid |-> 0, amount |-> amt,
                  amountWei |-> 0, allowance |-> 0]
       IN IF stakingContract = NullContract \/ esrContract = NullContract
             \/ account = NoAccount
          THEN StakeThrow(cl, "entry", <<>>)
          ELSE IF cl.spender = NullContract
          THEN StakeThrow(cl, "addresses", <<>>)
          ELSE IF ParseEtherThrows(amt)
          THEN StakeThrow(cl, "parseEther", <<>>)
          ELSE /\ stakeCall' = [cl EXCEPT !.pc = "allowance", !.amountWei = ParseEther(amt)]
               /\ stakeOps' = <<>>
               /\ stakeRet' = NoRet
    /\ UNCHANGED <<stakeFrame, walletVars, stakingContract, esrContract, farmingContract,
                   initLoads, spenderAllowance>>

\* deposit(pid, amount) up to its first await, getPoolInfo
Deposit(pid, amt) ==
    /\ stakeCall.pc = "idle"
    /\ stakeCalls < MaxCalls
    /\ stakeCalls' = stakeCalls + 1
    /\ LET cl == [pc |-> "entry", kind |-> "deposit", account |-> account,
                  contract |-> farmingContract, token |-> NullContract,
                  spender |-> IF chainId = NoChain THEN NullContract
                              ELSE getContractAddresses(chainId),
                  pid |-> pid, amount |-> amt, amountWei |-> 0, allowance |-> 0]
       IN IF farmingContract = NullContract \/ account = NoAccount
          THEN StakeThrow(cl, "entry", <<>>)
          ELSE IF chainId = NoChain
          THEN StakeThrow(cl, "chain", <<>>)
          ELSE IF cl.spender = NullContract
          THEN StakeThrow(cl, "addresses", <<>>)
          ELSE /\ stakeCall' = [cl EXCEPT !.pc = "getPoolInfo"]
               /\ stakeOps' = <<>>
               /\ stakeRet' = NoRet
    /\ UNCHANGED <<stakeFrame, walletVars, stakingContract, esrContract, farmingContract,
                   initLoads, spenderAllowance>>

\* await farmingContract.getPoolInfo(pid)
DepositGetPoolInfo ==
    /\ stakeCall.pc = "getPoolInfo"
    /\ \E ok \in BOOLEAN :
         IF ~ok
         THEN StakeThrow(stakeCall, "getPoolInfo", stakeOps)
         ELSE /\ stakeCall' = [stakeCall EXCEPT !.pc = "getLPContract"]
              /\ UNCHANGED <<stakeOps, stakeRet>>
    /\ UNCHANGED <<stepFrame, spenderAllowance>>

\* await getLPContract(poolInfo.lpToken), then parseEther(amount).  The
\* provider of the render that holds a farming contract is not null, so the
\* helper resolves with the LP contract or rejects in getSigner().
DepositGetLPContract ==
    /\ stakeCall.pc = "getLPContract"
    /\ \E ok \in BOOLEAN :
         IF ~ok
         THEN StakeThrow(stakeCall, "getLPContract", stakeOps)
         ELSE IF ParseEtherThrows(stakeCall.amount)
         THEN StakeThrow(stakeCall, "parseEther", stakeOps)
         ELSE /\ stakeCall' = [stakeCall EXCEPT !.pc = "allowance",
                                                !.token = stakeCall.contract,
                                                !.amountWei = ParseEther(stakeCall.amount)]
              /\ UNCHANGED <<stakeOps, stakeRet>>
    /\ UNCHANGED <<stepFrame, spenderAllowance>>

\* await <token>.allowance(account, spender), then the comparison and the
\* call it leads to
AwaitAllowance(kind) ==
    /\ stakeCall.kind = kind
    /\ stakeCall.pc = "allowance"
    /\ \E ok \in BOOLEAN :
         IF ~ok
         THEN StakeThrow(stakeCall, "allowance", stakeOps)
         ELSE LET v == spenderAllowance[SpenderKey(stakeCall)]
              IN /\ IF NeedsApproval(v, stakeCall.amountWei)
                    THEN /\ stakeCall' = [stakeCall EXCEPT !.pc = "approve", !.allowance = v]
                         /\ stakeOps' = stakeOps \o <<"allowance", "approve">>
                    ELSE /\ stakeCall' = [stakeCall EXCEPT !.pc = "submit", !.allowance = v]
                         /\ stakeOps' = stakeOps \o <<"allowance", SubmitOp(kind)>>
                 /\ UNCHANGED stakeRet
    /\ UNCHANGED <<stepFrame, spenderAllowance>>

\* await <token>.approve(spender, amountWei)
AwaitApprove(kind) ==
    /\ stakeCall.kind = kind
    /\ stakeCall.pc = "approve"
    /\ \E ok \in BOOLEAN :
         IF ~ok
         THEN StakeThrow(stakeCall, "approve", stakeOps)
         ELSE /\ stakeCall' = [stakeCall EXCEPT !.pc = "approveWait"]
              /\ UNCHANGED <<stakeOps, stakeRet>>
    /\ UNCHANGED <<stepFrame, spenderAllowance>>

\* variant: a failed approval confirmation is swallowed and the stake/deposit
\* call is issued all the same
AwaitApproveWaitSwallow(kind) ==
    /\ stakeCall.kind = kind
    /\ stakeCall.pc = "approveWait"
    /\ \E ok \in BOOLEAN :
         /\ spenderAllowance' =
                IF ok
                THEN [spenderAllowance EXCEPT ![SpenderKey(stakeCall)] = stakeCall.amountWei]
                ELSE spenderAllowance
         /\ stakeCall' = [stakeCall EXCEPT !.pc = "submit"]
         /\ stakeOps' = stakeOps \o (IF ok THEN <<"approveConfirmed">> ELSE <<>>)
                                 \o <<SubmitOp(kind)>>
         /\ UNCHANGED stakeRet
    /\ UNCHANGED stepFrame

\* await approveTx.wait(): mined, the allowance is the approved amount and
\* the stake/deposit call is issued; or reverted
AwaitApproveWait(kind) ==
    /\ stakeCall.kind = kind
    /\ stakeCall.pc = "approveWait"
    /\ \E ok \in BOOLEAN :
         IF ~ok
         THEN /\ StakeThrow(stakeCall, "approveWait", stakeOps)
              /\ UNCHANGED spenderAllowance
         ELSE /\ spenderAllowance' =
                     [spenderAllowance EXCEPT ![SpenderKey(stakeCall)] = stakeCall.amountWei]
              /\ stakeCall' = [stakeCall EXCEPT !.pc = "submit"]
              /\ stakeOps' = stakeOps \o <<"approveConfirmed", SubmitOp(kind)>>
              /\ UNCHANGED stakeRet
    /\ UNCHANGED stepFrame

\* await stakingContract.stake(amountWei) / farmingContract.deposit(pid, amountWei)
AwaitSubmit(kind) ==
    /\ stakeCall.kind = kind
    /\ stakeCall.pc = "submit"
    /\ \E ok \in BOOLEAN :
         IF ~ok
         THEN StakeThrow(stakeCall, "submit", stakeOps)
         ELSE /\ stakeCall' = [stakeCall EXCEPT !.pc = "submitWait"]
              /\ UNCHANGED <<stakeOps, stakeRet>>
    /\ UNCHANGED <<stepFrame, spenderAllowance>>

\* return tx.wait(): mined (the contract pulls the tokens out of the
\* allowance) or reverted
AwaitSubmitWait(kind) ==
    /\ stakeCall.kind = kind
    /\ stakeCall.pc = "submitWait"
    /\ \E ok \in BOOLEAN :
         IF ok /\ spenderAllowance[SpenderKey(stakeCall)] >= stakeCall.amountWei
         THEN /\ spenderAllowance' =
                     [spenderAllowance EXCEPT ![SpenderKey(stakeCall)] = @ - stakeCall.amountWei]
              /\ StakeReturn(stakeCall, stakeOps \o <<ConfirmedOp(kind)>>)
         ELSE /\ StakeThrow(stakeCall, "submitWait", stakeOps)
              /\ UNCHANGED spenderAllowance
    /\ UNCHANGED stepFrame

StakeAllowance == AwaitAllowance("stake")
StakeApproveSent == AwaitApprove("stake")
StakeApproveWait == AwaitApproveWait("stake")
StakeSent == AwaitSubmit("stake")
StakeWait == AwaitSubmitWait("stake")

DepositAllowance == AwaitAllowance("deposit")
DepositApproveSent == AwaitApprove("deposit")
DepositApproveWait == AwaitApproveWait("deposit")
DepositSent == AwaitSubmit("deposit")
DepositWait == AwaitSubmitWait("deposit")

NextStaking ==
    \/ \E c \in WalletChains \cup {NoChain} : InitializeEffect(c)
    \/ \E c \in WalletChains : InitializeContractsDone(c)
    \/ \E c \in WalletChains : InitializeContractDone(c)
    \/ \E a \in Accounts \cup {NoAccount} : AccountChanged(a)
    \/ \E amt \in CallAmounts : StakeESR(amt)
    \/ StakeAllowance
    \/ StakeApproveSent
    \/ StakeApproveWait
    \/ StakeSent
    \/ StakeWait
    \/ \E pid \in Pids, amt \in CallAmounts : Deposit(pid, amt)
    \/ DepositGetPoolInfo
    \/ DepositGetLPContract
    \/ DepositAllowance
    \/ DepositApproveSent
    \/ DepositApproveWait
    \/ DepositSent
    \/ DepositWait

SpecStaking ==
    Init /\ [][NextStaking]_vars

\* --------------------------------------------------- Bridge: estimateFee
estimateFrame == <<stakeVars, quoteVars, trackerVars, walletVars, hookVars, ledgerVars,
                   gatewayVars, pageVars, bridgeVars, selector, testnetMode>>

\* amounts typed while the fee is estimated
EstimateAmounts ==
    {EmptyText, TooFineText, AmountText(0, FALSE), AmountText(MaxFeeWei - 1, FALSE)}

\* estimateFee() of a render with amount amt and token tok: nothing without
\* both, else estimateBridgeFee(tok, amt) of that render is awaited
EstimateFeeCall(tok, amt) ==
    IF tok = NoToken \/ amt.empty
    THEN feeEstimates
    ELSE feeEstimates \cup {[token |-> tok, amount |-> amt, contract |-> bridgeContract]}

\* what estimateFee can store for a call: '0' when estimateBridgeFee throws
\* (no contract) or returns '0' (parseEther throws twice), else the fee at a
\* rate the ledger reports or at the default rate
EstimateOutcomes(ctr, amt) ==
    IF ctr = NullContract \/ ParseEtherThrows(amt)
    THEN {ZeroText}
    ELSE {FormatEther(LedgerRateFee(ParseEther(amt), r)) : r \in FeeRates}
             \cup {FormatEther(DefaultRateFee(ParseEther(amt)))}

\* setAmount(t), then the effect on [amount, selectedToken]
AmountFeeEffect(t) ==
    /\ t # amount
    /\ Cardinality(feeEstimates) < MaxEstimates
    /\ amount' = t
    /\ feeEstimates' = EstimateFeeCall(selectedToken, t)
    /\ UNCHANGED <<estimateFrame, fromChain, toChain, destinationAddress, selectedToken,
                   bridgeFee>>

\* setSelectedToken(tok), then the effect on [amount, selectedToken]
TokenFeeEffect(tok) ==
    /\ tok # selectedToken
    /\ tok \in {NoToken} \cup {t.address : t \in availableTokens(chainId)}
    /\ Cardinality(feeEstimates) < MaxEstimates
    /\ selectedToken' = tok
    /\ feeEstimates' = EstimateFeeCall(tok, amount)
    /\ UNCHANGED <<estimateFrame, fromChain, toChain, destinationAddress, amount, bridgeFee>>

\* an estimateFee call resumes after its await, in any order, and stores what
\* it got
EstimateFeeDone(e) ==
    /\ e \in feeEstimates
    /\ feeEstimates' = feeEstimates \ {e}
    /\ \E fee \in EstimateOutcomes(e.contract, e.amount) : bridgeFee' = fee
    /\ UNCHANGED <<estimateFrame, formVars>>

NextEstimate ==
    \/ \E c \in WalletChains : ChainEffect(c)
    \/ \E c \in WalletChains : LoadContractDone(c)
    \/ \E t \in EstimateAmounts : AmountFeeEffect(t)
    \/ \E tok \in TokenAddresses \cup {NoToken} : TokenFeeEffect(tok)
    \/ \E e \in feeEstimates : EstimateFeeDone(e)

SpecEstimate ==
    Init /\ [][NextEstimate]_vars

\* ------------------------------------------------------ TestnetModeToggle
\* handleToggle: the mode is flipped; ensureCorrectChainType may then make the
\* wallet report another chain, which arrives as a chain change of its own
HandleToggle ==
    /\ testnetMode' = ~testnetMode
    /\ UNCHANGED <<stakeVars, quoteVars, trackerVars, walletVars, hookVars, ledgerVars,
                   gatewayVars, formVars, pageVars, bridgeVars, bridgeFee, feeEstimates,
                   selector>>

NextMode ==
    \/ HandleToggle
    \/ \E c \in WalletChains : ChainEffect(c)
    \/ \E c \in WalletChains : LoadContractDone(c)
    \/ \E a \in Accounts \cup {NoAccount} : AccountEffect(a)
    \/ \E c \in AvailableChains \cup TestnetChains : SetFromChain(c)
    \/ \E c \in AvailableChains \cup TestnetChains : SetToChain(c)
    \/ \E t \in TokenAddresses \cup {NoToken} : SetSelectedToken(t)
    \/ \E t \in FormAmounts : SetAmount(t)
    \/ HandleBridge
    \/ LockTokensSettled
    \/ BurnAndBridgeSettled

SpecMode ==
    Init /\ [][NextMode]_vars

\* ---------------------------------------------------------- ChainSelector
selectorFrame == <<stakeVars, quoteVars, trackerVars, walletVars, hookVars, ledgerVars,
                   gatewayVars, formVars, pageVars, bridgeVars, bridgeFee, feeEstimates,
                   testnetMode>>

\* the chains listed in the dropdown
displayedChains ==
    {c \in AvailableChains \cup TestnetChains : isTestnetChain(c) = selector.showTestnets}

\* the effect on [isOpen], run after isOpen changed to `open`
ClearErrorEffect(open, message) ==
    IF ~open THEN NoError ELSE message

\* click on the selector button: setIsOpen(!isOpen)
ToggleOpen ==
    /\ selector' = [selector EXCEPT
                        !.isOpen = ~selector.isOpen,
                        !.errorMessage = ClearErrorEffect(~selector.isOpen, @)]
    /\ UNCHANGED selectorFrame

\* click outside the open dropdown: !isProcessing && setIsOpen(false)
OverlayClick ==
    /\ selector.isOpen
    /\ ~selector.isProcessing
    /\ selector' = [selector EXCEPT !.isOpen = FALSE,
                                    !.errorMessage = ClearErrorEffect(FALSE, @)]
    /\ UNCHANGED selectorFrame

\* the Show Testnets checkbox of the open dropdown
ToggleShowTestnets ==
    /\ selector.isOpen
    /\ selector' = [selector EXCEPT !.showTestnets = ~selector.showTestnets]
    /\ UNCHANGED selectorFrame

\* handleChainSelect(targetChainId) up to its await
HandleChainSelect(targetChainId) ==
    /\ selector.isOpen
    /\ targetChainId \in displayedChains
    /\ Len(selector.switching) < MaxSwitches
    /\ selector' = [selector EXCEPT !.isProcessing = TRUE,
                                    !.errorMessage = NoError,
                                    !.switching = Append(@, targetChainId)]
    /\ UNCHANGED selectorFrame

RemoveAt(q, i) ==
    SubSeq(q, 1, i - 1) \o SubSeq(q, i + 1, Len(q))

\* await switchChain(targetChainId) settles with true, false or an exception;
\* the [isOpen] effect runs when isOpen changed
SwitchChainSettled(i, outcome) ==
    /\ i \in 1..Len(selector.switching)
    /\ LET target == selector.switching[i]
           message == IF outcome = "true" THEN selector.errorMessage
                      ELSE IF outcome = "false"
                      THEN [kind |-> "failed", target |-> target]
                      ELSE [kind |-> "exception", target |-> NoChain]
           open == IF outcome = "true" THEN FALSE ELSE selector.isOpen
       IN selector' = [selector EXCEPT
                           !.isProcessing = FALSE,
                           !.isOpen = open,
                           !.errorMessage = IF open # selector.isOpen
                                            THEN ClearErrorEffect(open, message)
                                            ELSE message,
                           !.switching = RemoveAt(@, i)]
    /\ UNCHANGED selectorFrame

NextSelector ==
    \/ ToggleOpen
    \/ OverlayClick
    \/ ToggleShowTestnets
    \/ \E c \in AvailableChains \cup TestnetChains : HandleChainSelect(c)
    \/ \E i \in 1..MaxSwitches, outcome \in {"true", "false", "throw"} :
           SwitchChainSettled(i, outcome)

SpecSelector ==
    Init /\ [][NextSelector]_vars

\* ------------------------------------------------------------- properties
Issued(e) ==
    e \in Range(ops)

\* e1 occurs in ops, and before every occurrence of e2
Precedes(e1, e2) ==
    \E i \in 1..Len(ops) :
        /\ ops[i] = e1
        /\ \A j \in 1..Len(ops) : ops[j] = e2 => i < j

\* C1: in lockTokens, when the allowance read is smaller than the requested
\* amount, approve is issued, and the lock call is issued only after approve
\* was issued and its confirmation arrived (the allowance then covers the
\* amount).
C1_ApproveConfirmedBeforeLock ==
    (call.kind = "lock" /\ Issued("allowance") /\ call.allowance < call.amountWei)
        => /\ Issued("approve")
           /\ Issued("lockTokens")
                => /\ Precedes("approve", "approveConfirmed")
                   /\ Precedes("approveConfirmed", "lockTokens")
                   /\ allowance[AllowanceKey(call)] >= call.amountWei

C1_Witness ==
    /\ call.pc = "lockWait"
    /\ call.allowance = 0
    /\ call.amountWei = MaxWei
    /\ ops = <<"allowance", "approve", "approveConfirmed", "lockTokens">>

\* C2: every submit operation (lockTokens and burnAndBridge) is issued only
\* after an allowance read of the same call.
C2_AllowanceReadBeforeSubmit ==
    /\ Issued("lockTokens") => Precedes("allowance", "lockTokens")
    /\ Issued("burnAndBridge") => Precedes("allowance", "burnAndBridge")

\* C3: when the allowance read, the approve call or the approval confirmation
\* fails, lockTokens ends with an error and has issued no lock call; a lock
\* call is issued only after a successful allowance read and, if approve was
\* issued, its confirmation.
C3_FailFastNoLock ==
    /\ (ret.outcome = "error" /\ ret.failedAt \in {"allowance", "approve", "approveWait"})
         => (call.pc = "idle" /\ ~Issued("lockTokens") /\ ~Issued("lockConfirmed"))
    /\ Issued("lockTokens")
         => (Issued("allowance") /\ (Issued("approve") => Issued("approveConfirmed")))

C3_Witness ==
    /\ ret.outcome = "error"
    /\ ret.failedAt = "approveWait"
    /\ ops = <<"allowance", "approve">>

\* C4: a lockTokens call that follows one which ended with the approval in
\* place and the lock unconfirmed, for the same owner, bridge, token and
\* amount, reads the allowance again, issues no approve and goes straight to
\* the lock call.
Resumed ==
    /\ call.kind = "lock"
    /\ call.pc \in {"allowance", "approve", "approveWait", "lock", "lockWait"}
    /\ prevLock.open
    /\ prevLock.account = call.account
    /\ prevLock.contract = call.contract
    /\ prevLock.token = call.token
    /\ prevLock.amountWei = call.amountWei

C4_ResumeWithoutSecondApprove ==
    Resumed => \/ (call.pc = "allowance" /\ ops = <<>>)
               \/ (call.pc \in {"lock", "lockWait"} /\ ops = <<"allowance", "lockTokens">>)

C4_Witness ==
    /\ Resumed
    /\ prevLock.approvedNow
    /\ call.pc = "lock"

\* C5: an accepted transfer goes to lockTokens exactly when the selected token
\* is listed for the chain of the submission with that chain as its home
\* chain; in every other case, a token not found among the available tokens
\* included, it goes to burnAndBridge.
HomeChains(sel, chain) ==
    {tok.chainId : tok \in {t \in getTokensByChain(chain) : t.address = sel}}

C5_LockIffHomeChain ==
    hb.pc # "idle"
        => /\ hb.pc \in {"lockTokens", "burnAndBridge"}
           /\ hb.pc = "lockTokens" <=> hb.chain \in HomeChains(hb.token, hb.chain)

C5_Witness ==
    /\ hb.pc = "burnAndBridge"
    /\ HomeChains(hb.token, hb.chain) = {}

\* C6: an accepted handleBridge ends either acknowledged, with exactly one
\* reload of the user's transactions applied to the local list, or with an
\* error, with no reload and the local list and the form left as they were.
BridgeLoads ==
    {ld \in txLoads : ld.origin = "bridge"}

C6_Counts ==
    /\ last.outcome = "ok" => last.applied + Cardinality(BridgeLoads) = 1
    /\ last.outcome = "error" => (last.applied = 0 /\ BridgeLoads = {})

C6_ErrorStep ==
    (hb' # hb /\ last'.outcome = "error")
        => UNCHANGED <<userTransactions, ledgerTxs, amount, destinationAddress>>

C6_OneRecordOrNone ==
    [](C6_Counts) /\ [][C6_ErrorStep]_vars

C6_Witness ==
    /\ last.outcome = "ok"
    /\ last.applied = 1
    /\ userTransactions = <<1>>

\* C7: a transfer is submitted for an account only when a fee-requirements
\* check for that account has completed with hasBalance and hasAllowance both
\* true and no check for it is still in flight.
C7_SubmitStep ==
    (hb.pc = "idle" /\ hb'.pc # "idle")
        => /\ account \in feeVerified
           /\ ~ \E chk \in feeChecks : chk.account = account

C7_SubmitOnlyAfterFeeCheck ==
    [][C7_SubmitStep]_vars

\* C8: with an empty, zero or negative amount no handleBridge invocation is
\* accepted: no gateway call starts, and the click changes nothing but the
\* alert shown.
BadAmount ==
    amount \in {EmptyText, ZeroText} \/ amount.neg

C8_NoStart ==
    (hb.pc = "idle" /\ BadAmount)
        => UNCHANGED <<hb, isBridging, submitted, ledgerVars>>

C8_Click ==
    (HandleBridge /\ BadAmount)
        => /\ lastAlert' = MsgAmount
           /\ UNCHANGED <<walletVars, hookVars, ledgerVars, gatewayVars, formVars,
                          isBridging, userTransactions, feeWarning, bridgeVars>>

C8_InvalidAmountRejected ==
    [][C8_NoStart /\ C8_Click]_vars

C8_Witness ==
    /\ lastAlert = MsgAmount
    /\ amount = ZeroText
    /\ hb.pc = "idle"
    /\ submitted = 0

\* C9: a transfer that reaches the gateway has a destination chain different
\* from its source chain, both as selected in From and as the chain of the
\* wallet.
C9_SourceDiffersFromDestination ==
    hb.pc # "idle" => (hb.target # hb.from /\ hb.target # hb.chain)

\* C10: the statuses returned for a handle by successive getTransaction calls
\* never step back along Pending, Locked, Released, Completed, and once Failed
\* was returned only Failed is returned, failed reads and a missing contract
\* included.
Regresses(old, new) ==
    \/ (old = Failed /\ new # Failed)
    \/ (old # Failed /\ new # Failed /\ new < old)

C10_Step ==
    \A h \in Handles :
        got[h].txId # 0 => ~Regresses(got[h].status, got'[h].status)

C10_StatusNeverRegresses ==
    [][C10_Step]_vars

\* C11: when the ledger read of getTransaction fails, or the bridge contract
\* is unavailable, the caller gets an error and never a transaction record.
TransactionRecords ==
    [txId : 0..MaxHandles, user : {"", "0xA"}, status : Pending..Failed]

C11_ReadFailureIsAnError ==
    \A h \in Handles :
        resp[h].kind \in {"failed", "noContract"} => got[h] \notin TransactionRecords

\* C12: getTransaction(h) for a handle the ledger has no record of fails
\* (NotFound) instead of returning a transaction record.
C12_NotFoundWhenAbsent ==
    \A h \in Handles :
        resp[h].kind = "absent" => got[h] \notin TransactionRecords

\* C13: the cached list of the user's transactions changes only when a
\* successful getUserTransactions read is delivered, and then to the list
\* read; a failed read and an unavailable bridge contract leave it as it was.
C13_Step ==
    userTransactions' # userTransactions
        => \E ld \in txLoads :
              /\ txLoads' = txLoads \ {ld}
              /\ ld.state = "ok"
              /\ userTransactions' = ld.txs

C13_CacheKeptOnFailedRead ==
    [][C13_Step]_vars

\* C14: after a successful ledger read the entry returned carries the handle,
\* the user and exactly the status code the ledger reported, for each of the
\* codes 0..4.
C14_StatusVerbatim ==
    \A h \in Handles :
        resp[h].kind = "record"
            => got[h] = [txId |-> h, user |-> "0xA", status |-> resp[h].status]

C14_Witness ==
    \E h1, h2 \in Handles :
        /\ resp[h1].kind = "record" /\ resp[h1].status = Pending
        /\ resp[h2].kind = "record" /\ resp[h2].status = Failed
        /\ got[h2].status = Failed

\* C15: a getTransaction(h) call answered by the ledger exactly as the
\* previous call for h was returns the same entry as that call, field by field.
C15_Step ==
    \A h \in Handles :
        resp'[h].again => got'[h] = got[h]

C16_PerItemIsolation ==
    \A a, b \in Range(listed) :
        (a # b /\ resp[a].kind = "record" /\ resp[b].kind = "failed")
            => /\ got[a] = [txId |-> a, user |-> "0xA", status |-> resp[a].status]
               /\ got[b] \notin TransactionRecords

\* a step that delivers the response of the load ld to the page
Delivered(ld) ==
    /\ ld \in txLoads
    /\ txLoads' = txLoads \ {ld}

\* C17: of two loads of the user's transactions in flight at once, the
\* response to the earlier request never replaces the later one's: a
\* successful read that is delivered never makes the cached list shorter
\* (the ledger's list only grows).
C17_Step ==
    \A ld \in txLoads :
        (Delivered(ld) /\ ld.state = "ok") => Len(userTransactions') >= Len(userTransactions)

C17_LoadsAppliedInRequestOrder ==
    [][C17_Step]_vars

\* C18: the response of a getUserTransactions call issued for an account that
\* is no longer the connected one does not change the cached list.
C18_Step ==
    \A ld \in txLoads :
        (Delivered(ld) /\ ld.account # account) => userTransactions' = userTransactions

C18_AbandonedLoadLeavesCache ==
    [][C18_Step]_vars

\* the fee read failed and the amount has a scaled value
FeeReadFailed ==
    /\ quote.via \in {"ledger", "default", "zero"}
    /\ ~quote.readOk
    /\ ~ParseEtherThrows(quote.amount)

C20_FallbackObservable ==
    (/\ quote.via = "default"
     /\ prevQuote.via = "ledger"
     /\ prevQuote.rate = DefaultFeeBps
     /\ prevQuote.amount = quote.amount
     /\ ParseEther(quote.amount) >= MaxFeeWei - 1)
        => quote.fee # prevQuote.fee

\* C21: when the ledger reports a rate of r basis points, the fee returned is
\* scaled amount * r / 10000 (whole wei), with nothing else added to it, for
\* every rate the ledger reports and every amount that is not negative.
C21_LedgerRateFee ==
    (quote.via = "ledger" /\ ParseEther(quote.amount) >= 0)
        => /\ ~ParseEtherThrows(quote.fee)
           /\ ParseEther(quote.fee) =
                  (ParseEther(quote.amount) * quote.rate) \div FeeDenominator

\* C22: a call of estimateBridgeFee for an amount that has a scaled value
\* ends with a fee at the ledger's rate, or, whenever the rate is not
\* available (failed read, no bridge contract), with the fee at the default
\* rate of 250 basis points; it never throws.
C22_DegradesToDefaultRate ==
    (quote.via # "none" /\ ~ParseEtherThrows(quote.amount))
        => \/ quote.via = "ledger"
           \/ /\ quote.via = "default"
              /\ quote.fee = FormatEther(DefaultRateFee(ParseEther(quote.amount)))

\* C23: after a successful read checkFeeRequirements returns hasBalance and
\* hasAllowance each as the ledger reported it, in all four combinations, as
\* a value; an unmet requirement is not thrown.
C23_FlagsIndependent ==
    /\ req.via = "read"
         => /\ req.ret.hasBalance = req.ledger.hasBalance
            /\ req.ret.hasAllowance = req.ledger.hasAllowance
    /\ req.via = "thrown" => req.ledger = NoRequirements

C23_Witness ==
    /\ req.via = "read"
    /\ req.ret.hasBalance /\ ~req.ret.hasAllowance
    /\ prevReq.via = "read"
    /\ ~prevReq.ret.hasBalance /\ prevReq.ret.hasAllowance

\* C24: what checkFeeRequirements returns after a failed read differs from
\* what it returns after a successful read that reports both flags false.
C24_FailedReadDistinct ==
    (/\ req.via = "failed"
     /\ prevReq.via = "read"
     /\ ~prevReq.ledger.hasBalance
     /\ ~prevReq.ledger.hasAllowance)
        => req.ret # prevReq.ret

\* the integer v is the amount of text t scaled by 10^d
ScaledBy(v, t, d) ==
    LET n == DigitsValue(t.frac)
        e == d - Len(t.frac)
    IN IF n = 0 THEN v = 0
       ELSE IF e >= 0 THEN v = n * Pow10(e)
       ELSE IF -e > 9 THEN FALSE
       ELSE v * Pow10(-e) = n

\* C25: the amount a submit operation passes to the ledger is the amount
\* entered scaled by 10^(decimals of the token submitted).
C25_ScaledByTokenDecimals ==
    (call.pc # "idle" /\ (Issued("lockTokens") \/ Issued("burnAndBridge")))
        => ScaledBy(call.amountWei, call.amount, TokenDecimals(call.token))

\* C26: the bridge contract held is either null or the instance built for the
\* current chain id; it is null when the current chain has no configured
\* addresses, whatever the order in which contract loads complete.
C26_ContractOfCurrentChain ==
    bridgeContract # NullContract
        => (chainId # NoChain /\ bridgeContract = getContractAddresses(chainId))

\* C27: an accepted handleBridge makes one gateway call, lockTokens or
\* burnAndBridge as decided when it was accepted; while the call is in flight
\* neither the call nor the decision changes, whatever the wallet reports.
C27_Kind ==
    hb.pc # "idle"
        => /\ hb.pc \in {"lockTokens", "burnAndBridge"}
           /\ hb.pc = "lockTokens" <=> hb.native

C27_Step ==
    hb.pc # "idle" => (hb' = hb \/ hb' = Idle)

C27_KindComputedOnce ==
    [](C27_Kind) /\ [][C27_Step]_vars

C27_Witness ==
    /\ hb.pc = "lockTokens"
    /\ chainId # hb.chain
    /\ ~isNativeToken(availableTokens(chainId), hb.token, chainId)

\* C30: isBridging is true exactly while the gateway call of an accepted
\* handleBridge is in flight: it is set when the call starts, reset when the
\* call settles, with a receipt or an error, and no other call starts while
\* it is true.
C30_Flag ==
    isBridging <=> hb.pc # "idle"

C30_Step ==
    /\ (hb.pc = "idle" /\ hb'.pc # "idle") => (~isBridging /\ isBridging')
    /\ (hb.pc # "idle" /\ hb' # hb) => (hb'.pc = "idle" /\ ~isBridging')

C28_SourceIsSelectedFrom ==
    hb.pc # "idle"
        => /\ hb.chain = hb.from
           /\ hb.contract = getContractAddresses(hb.from)
           /\ hb.native = isNativeToken(availableTokens(hb.from), hb.token, hb.from)

\* C29: in stakeESR and in the farming deposit, the stake/deposit call is
\* issued only after an allowance read that covered the amount, or after an
\* approve for the amount was issued and its confirmation arrived; when the
\* approval fails the stake/deposit call is never issued.
StakeIssued(e) ==
    e \in Range(stakeOps)

\* e1 occurs in stakeOps, and before every occurrence of e2
StakePrecedes(e1, e2) ==
    \E i \in 1..Len(stakeOps) :
        /\ stakeOps[i] = e1
        /\ \A j \in 1..Len(stakeOps) : stakeOps[j] = e2 => i < j

C29_ApproveThenCall ==
    \A kind \in StakeKinds :
        /\ (stakeCall.kind = kind /\ StakeIssued(SubmitOp(kind)))
             => /\ StakePrecedes("allowance", SubmitOp(kind))
                /\ \/ (stakeCall.allowance >= stakeCall.amountWei /\ ~StakeIssued("approve"))
                   \/ /\ stakeCall.allowance < stakeCall.amountWei
                      /\ StakePrecedes("approve", "approveConfirmed")
                      /\ StakePrecedes("approveConfirmed", SubmitOp(kind))
        /\ (stakeCall.kind = kind /\ stakeRet.outcome = "error"
                /\ stakeRet.failedAt \in {"approve", "approveWait"})
             => (~StakeIssued(SubmitOp(kind)) /\ ~StakeIssued(ConfirmedOp(kind)))
        /\ (stakeCall.kind = kind /\ StakeIssued("approve") /\ ~StakeIssued("approveConfirmed"))
             => ~StakeIssued(SubmitOp(kind))

C29_Witness ==
    /\ stakeCall.kind = "deposit"
    /\ stakeCall.allowance < stakeCall.amountWei
    /\ stakeOps = <<"allowance", "approve", "approveConfirmed", "deposit", "depositConfirmed">>
    /\ stakeRet.outcome = "ok"

\* C32: a rate the ledger reports is honoured, a rate of 0 included: after a
\* successful read that reports 0 basis points the fee returned is 0; the
\* default of 250 basis points is for a failed read only.
C32_ZeroRateHonoured ==
    (quote.via = "ledger" /\ quote.readOk /\ quote.rate = 0)
        => quote.fee = FormatEther(0)

\* C33: on a chain without configured contract addresses, once no contract
\* initialisation is in flight, the bridge, staking and farming hooks all hold
\* a null contract.
C33_NoContractOfPreviousChain ==
    (/\ chainId # NoChain
     /\ getContractAddresses(chainId) = NullContract
     /\ contractLoads = {}
     /\ initLoads = {})
        => /\ bridgeContract = NullContract
           /\ stakingContract = NullContract
           /\ esrContract = NullContract
           /\ farmingContract = NullContract

\* C31: once no fee estimate is in flight, the stored bridgeFee is an
\* estimate for the amount entered and the token selected now (with or
\* without a bridge contract, at any rate the ledger may report).
C31_FeeOfCurrentInput ==
    (feeEstimates = {} /\ ~amount.empty /\ selectedToken # NoToken)
        => \E c \in WalletChains \cup {NoChain} :
               bridgeFee \in EstimateOutcomes(getContractAddresses(c), amount)

\* C34: whenever the dropdown of the chain selector is closed, errorMessage
\* is null.
C34_ClosedMeansNoError ==
    ~selector.isOpen => selector.errorMessage = NoError

\* C35: fromChain and toChain are both among the chains available for the
\* current testnetMode.
C35_ChainsOfCurrentMode ==
    /\ fromChain \in availableChains
    /\ toChain \in availableChains

====
